---- MODULE Spec2Model ----
(***************************************************************************)
(* Call scheduling and state reconciliation of the lead calling backend:   *)
(* the CallQueue dispatcher (services/callQueue.js), the Lead and CallLog  *)
(* models (src/models), the Twilio status callback                         *)
(* (services/twilioService.js, src/routes/calls.js) and the manual call    *)
(* start routes.                                                           *)
(*                                                                         *)
(* Every handler is an async function.  One step of the model is the       *)
(* synchronous code between two awaits together with the store or gateway  *)
(* operation it awaits; other handlers interleave between the steps.       *)
(* Document.save() of mongoose writes only the paths the handler assigned, *)
(* so a save is modelled as an update of exactly those fields.             *)
(* Times are minutes.                                                      *)
(***************************************************************************)
EXTENDS Integers, Sequences, FiniteSets, TLC

VARIABLES
    now,                \* wall clock, minutes
    leads,              \* Lead collection: lead id -> document
    calls,              \* CallLog collection: sequence of documents, id = index
    users,              \* User collection (salespeople): agent id -> document
    activeCalls,        \* CallQueue.activeCalls: Map lead id -> salesperson id
    isRunning,          \* CallQueue.isRunning
    maxConcurrentCalls, \* CallQueue.maxConcurrentCalls
    tick,               \* processQueue invocations in flight: position and locals
    manual,             \* manual call start request in flight: position and locals
    hook,               \* status callback request in flight: position and locals
    reset,              \* resetStuckLeads invocation: documents still to save
    placed,             \* CallLog ids of the calls the gateway accepted
    nCallbacks,         \* number of status callbacks delivered so far
    selected,           \* result of the last Lead.getNextLeadToCall() probe
    creates,            \* POST /api/leads requests: position, locals, last reply
    hooks,              \* overlapping status callback requests: position, locals
    boot                \* position of CallQueue.initialize

vars == <<now, leads, calls, users, activeCalls, isRunning, maxConcurrentCalls,
          tick, manual, hook, reset, placed, nCallbacks, selected, creates,
          hooks, boot>>

----------------------------------------------------------------------------
(* Bounds of the model *)

NumLeads == 2
NumAgents == 1
NumTicks == 2
MaxCalls == 2
MaxCallbacks == 2
MaxNow == 15
SelLeads == 2
SelMaxTime == 1
MaxOutcomes == 4
\* longest callHistory of a lead on which the model methods are exercised
MaxHistory == 3
\* POST /api/leads requests in flight at the same time, and the phone numbers
\* they ask for
NumCreators == 2
NumPhones == 2
\* status callback requests that overlap
NumHooks == 2

(* Program constants *)

DefaultMaxConcurrentCalls == 5
StuckMinutes == 5
NoAnswerDelay == 30
BusyDelay == 15
MaxAttempts == 3
CallAttemptsMax == 5

NoTime == -1
NoAgent == 0
NoLead == 0
NoCall == 0
NotProbed == -1
NoPhone == 0
\* no response sent yet
NoReply == 0

LeadIds == 1..NumLeads
AgentIds == 1..NumAgents
Ticks == 1..NumTicks
Creators == 1..NumCreators
Phones == 1..NumPhones
Hooks == 1..NumHooks

Priorities == {"low", "medium", "high", "urgent"}
LeadStatuses == {"pending", "calling", "answered", "no_answer", "busy",
                 "failed", "completed", "transferred"}
CallStatuses == {"initiated", "ringing", "answered", "completed", "busy",
                 "no-answer", "failed", "canceled"}
NonTerminal == {"initiated", "ringing", "answered"}
Terminal == {"completed", "busy", "no-answer", "failed", "canceled"}

----------------------------------------------------------------------------
(* Lead model *)

\* the position of a priority label in the ascending string order that
\* sort({priority: 1}) uses
PrioritySortKey(p) ==
    CASE p = "high" -> 1
      [] p = "low" -> 2
      [] p = "medium" -> 3
      [] p = "urgent" -> 4

\* the filter of getNextLeadToCall
Eligible(ld, t) ==
    /\ ld.status = "pending"
    /\ ld.isActive
    /\ (ld.nextCallTime = NoTime \/ ld.nextCallTime <= t)

\* sort({priority: 1, createdAt: 1}): a comes no later than b
SortsBefore(a, b) ==
    \/ PrioritySortKey(a.priority) < PrioritySortKey(b.priority)
    \/ /\ a.priority = b.priority
       /\ a.createdAt <= b.createdAt

\* getNextLeadToCall as it would be without the isActive condition
getNextLeadToCallAnyActivity(ls, t) ==
    {l \in DOMAIN ls :
        /\ ls[l].status = "pending"
        /\ (ls[l].nextCallTime = NoTime \/ ls[l].nextCallTime <= t)
        /\ \A m \in DOMAIN ls :
              (ls[m].status = "pending"
               /\ (ls[m].nextCallTime = NoTime \/ ls[m].nextCallTime <= t))
                  => SortsBefore(ls[l], ls[m])}

\* the documents findOne may return: the first of the sorted matches (several
\* when the sort keys tie); the empty set when nothing matches
getNextLeadToCall(ls, t) ==
    {l \in DOMAIN ls :
        /\ Eligible(ls[l], t)
        /\ \A m \in DOMAIN ls : Eligible(ls[m], t) => SortsBefore(ls[l], ls[m])}

NewLead(ph, p, c) ==
    [phone |-> ph, status |-> "pending", isActive |-> TRUE, priority |-> p,
     callAttempts |-> 0, lastCallAttempt |-> NoTime, nextCallTime |-> NoTime,
     assignedTo |-> NoAgent, callHistory |-> <<>>,
     createdAt |-> c, updatedAt |-> 0]

\* lead.status = 'calling'; lead.assignedTo = salesperson._id; lead.save()
ClaimLead(ls, l, a, t) ==
    [ls EXCEPT ![l].status = "calling", ![l].assignedTo = a, ![l].updatedAt = t]

\* RevertLead as it would be if a reverted attempt were counted
RevertLeadCounted(ls, l, t) ==
    [ls EXCEPT ![l].status = "pending", ![l].assignedTo = NoAgent,
               ![l].updatedAt = t, ![l].callAttempts = @ + 1]

\* lead.status = 'pending'; lead.assignedTo = undefined; lead.save()
RevertLead(ls, l, t) ==
    [ls EXCEPT ![l].status = "pending", ![l].assignedTo = NoAgent,
               ![l].updatedAt = t]


\* updateCallStatus as it would be if it did not count the attempt
updateCallStatusUncounted(doc, status, t) ==
    [doc EXCEPT !.status = status, !.lastCallAttempt = t]

\* leadSchema.methods.updateCallStatus applied to a loaded document, before
\* the save
updateCallStatus(doc, status, t) ==
    LET d1 == [doc EXCEPT !.status = status, !.lastCallAttempt = t] IN
    IF status \in {"answered", "no_answer", "busy", "failed"}
    THEN LET n == doc.callAttempts + 1
             d2 == [d1 EXCEPT !.callAttempts = n,
                              !.callHistory = Append(@, [attempt |-> n,
                                                         status |-> status])]
         IN  IF status = "no_answer" /\ n < MaxAttempts
             THEN [d2 EXCEPT !.nextCallTime = t + NoAnswerDelay]
             ELSE IF status = "busy" /\ n < MaxAttempts
             THEN [d2 EXCEPT !.nextCallTime = t + BusyDelay]
             ELSE IF n >= MaxAttempts
             THEN [d2 EXCEPT !.status = "failed", !.isActive = FALSE]
             ELSE d2
    ELSE d1

\* the validators of leadSchema that save() runs: the status enum and the
\* maximum of callAttempts
ValidLead(doc) ==
    /\ doc.status \in LeadStatuses
    /\ doc.callAttempts <= CallAttemptsMax

\* doc.save() of a document that was loaded as old and is now new: the paths
\* that changed are $set, the entries pushed to callHistory are $push-ed, and
\* the timestamps plugin sets updatedAt
SaveLead(cur, old, new, t) ==
    [f \in DOMAIN cur |->
        IF f = "callHistory"
        THEN cur.callHistory
             \o SubSeq(new.callHistory, Len(old.callHistory) + 1,
                       Len(new.callHistory))
        ELSE IF f = "updatedAt" THEN t
        ELSE IF new[f] # old[f] THEN new[f]
        ELSE cur[f]]

----------------------------------------------------------------------------
(* CallLog model *)

\* origin is not a field of the document: it records which handler created it
NewCallLog(l, a, o) ==
    [lead |-> l, salesperson |-> a, twilioCallSid |-> NoCall,
     status |-> "initiated", answerTime |-> NoTime,
     endTime |-> NoTime, duration |-> 0, errorMessage |-> FALSE,
     origin |-> o]

\* updateStatus as it would be if it ignored additionalData
updateStatusComputed(doc, status, extra, t) ==
    LET d1 == [doc EXCEPT !.status = status] IN
    IF status = "answered"
    THEN [d1 EXCEPT !.answerTime = t]
    ELSE IF status = "completed"
    THEN IF doc.answerTime # NoTime
         THEN [d1 EXCEPT !.endTime = t, !.duration = (t - doc.answerTime) * 60]
         ELSE [d1 EXCEPT !.endTime = t]
    ELSE IF status \in {"failed", "busy", "no-answer"}
    THEN [d1 EXCEPT !.endTime = t]
    ELSE d1

\* callLogSchema.methods.updateStatus applied to a loaded document, before the
\* save; extra is the additionalData object: hasDuration and hasError tell
\* which keys it carries
updateStatus(doc, status, extra, t) ==
    LET d1 == [doc EXCEPT !.status = status]
        d2 == IF status = "answered"
              THEN [d1 EXCEPT !.answerTime = t]
              ELSE IF status = "completed"
              THEN IF doc.answerTime # NoTime
                   THEN [d1 EXCEPT !.endTime = t, !.duration = (t - doc.answerTime) * 60]
                   ELSE [d1 EXCEPT !.endTime = t]
              ELSE IF status \in {"failed", "busy", "no-answer"}
              THEN [d1 EXCEPT !.endTime = t]
              ELSE d1
        d3 == IF extra.hasDuration THEN [d2 EXCEPT !.duration = extra.duration]
              ELSE d2
    IN  IF extra.hasError THEN [d3 EXCEPT !.errorMessage = TRUE] ELSE d3

\* doc.save() of a call log loaded as old and now new: changed paths are $set
SaveCallLog(cur, old, new) ==
    [f \in DOMAIN cur |-> IF new[f] # old[f] THEN new[f] ELSE cur[f]]

----------------------------------------------------------------------------
(* User model *)

\* User.findOne({role: 'salesperson', isAvailable: true, isActive: true})
\*     .sort({'callStats.totalCalls': 1, lastLogin: -1})
findAvailableSalesperson(us) ==
    {a \in DOMAIN us :
        /\ us[a].isAvailable /\ us[a].isActive
        /\ \A b \in DOMAIN us :
              us[b].isAvailable /\ us[b].isActive
                  => us[a].totalCalls <= us[b].totalCalls}

----------------------------------------------------------------------------
(* Initial state: the store holds fresh leads and the salespeople, the     *)
(* queue has been constructed and start() has run.                         *)

\* the priorities of the leads in the store at the start: high and urgent
\* alternate in creation order
InitPriority(l) == IF l % 2 = 1 THEN "high" ELSE "urgent"

NoDoc == [status |-> "none"]

\* log is the callLog argument makeCall hands to handleCallFailure
IdleTick ==
    [pc |-> "idle", lead |-> NoLead, agent |-> NoAgent, call |-> NoCall,
     log |-> NoCall]

IdleManual ==
    [pc |-> "idle", route |-> "none", lead |-> NoLead, agent |-> NoAgent,
     call |-> NoCall, ldoc |-> NoDoc]

\* a POST /api/leads request: phone is the number it asks for, reply the HTTP
\* status of the last response to this client
IdleCreate == [pc |-> "idle", phone |-> NoPhone, reply |-> NoReply]

\* route names the handler; was is not a local of the handlers: it records
\* the status the call log had when the handler loaded it; reply is the HTTP
\* status POST /webhook/status answered last (NoReply before any answer)
IdleHook ==
    [pc |-> "idle", route |-> "none", call |-> NoCall, status |-> "none",
     duration |-> 0, doc |-> NoDoc, ldoc |-> NoDoc, was |-> "none",
     reply |-> NoReply]

Init ==
    /\ now = 0
    /\ leads = [l \in LeadIds |-> NewLead(l, InitPriority(l), l)]
    /\ calls = <<>>
    /\ users = [a \in AgentIds |->
                  [isAvailable |-> TRUE, isActive |-> TRUE,
                   totalCalls |-> 0, successfulCalls |-> 0]]
    /\ activeCalls = [l \in {} |-> NoAgent]
    /\ isRunning = TRUE
    /\ maxConcurrentCalls \in {1, DefaultMaxConcurrentCalls}
    /\ tick = [p \in Ticks |-> IdleTick]
    /\ manual = IdleManual
    /\ hook = IdleHook
    /\ reset = {}
    /\ placed = {}
    /\ nCallbacks = 0
    /\ selected = NotProbed
    /\ creates = [k \in Creators |-> IdleCreate]
    /\ hooks = [k \in Hooks |-> IdleHook]
    /\ boot = "started"

----------------------------------------------------------------------------
(* The dispatcher: CallQueue.processQueue and CallQueue.makeCall           *)

\* call logs that exist or that a handler in flight is about to create
CallsCommitted ==
    Len(calls)
    + Cardinality({p \in Ticks : tick[p].pc \in {"selected", "agent", "leadSaved"}})
    + (IF manual.pc \in {"read", "agent", "leadSaved"} THEN 1 ELSE 0)

\* Map.set(key, value)
MapSet(m, k, v) == [x \in DOMAIN m \cup {k} |-> IF x = k THEN v ELSE m[x]]

\* Map.delete(key)
MapDelete(m, k) == [x \in DOMAIN m \ {k} |-> m[x]]

\* The interval callback fires: processQueue up to its first await.
\* Invocations overlap when one takes longer than the interval; the slots of
\* the model are interchangeable and are taken lowest first.
ProcessQueueSelect(p) ==
    /\ isRunning
    /\ tick[p].pc = "idle"
    /\ \A q \in Ticks : q < p => tick[q].pc # "idle"
    /\ CallsCommitted < MaxCalls
    /\ IF Cardinality(DOMAIN activeCalls) >= maxConcurrentCalls
       THEN UNCHANGED tick
       ELSE LET found == getNextLeadToCall(leads, now) IN
            IF found = {}
            THEN UNCHANGED tick
            ELSE \E l \in found :
                    tick' = [tick EXCEPT ![p] = [IdleTick EXCEPT !.pc = "selected",
                                                                 !.lead = l]]
    /\ UNCHANGED <<now, leads, calls, users, activeCalls, isRunning,
                   maxConcurrentCalls, manual, hook, reset, placed, nCallbacks,
                   selected, creates, hooks, boot>>

\* the activeCalls.has check, then findAvailableSalesperson
ProcessQueueFindAgent(p) ==
    /\ tick[p].pc = "selected"
    /\ IF tick[p].lead \in DOMAIN activeCalls
       THEN tick' = [tick EXCEPT ![p] = IdleTick]
       ELSE LET found == findAvailableSalesperson(users) IN
            IF found = {}
            THEN tick' = [tick EXCEPT ![p].pc = "agent", ![p].agent = NoAgent]
            ELSE \E a \in found :
                    tick' = [tick EXCEPT ![p].pc = "agent", ![p].agent = a]
    /\ UNCHANGED <<now, leads, calls, users, activeCalls, isRunning,
                   maxConcurrentCalls, manual, hook, reset, placed, nCallbacks,
                   selected, creates, hooks, boot>>

\* ProcessQueueClaim as it would be if activeCalls.set came before the check
\* of the salesperson
ProcessQueueClaimEager(p) ==
    /\ tick[p].pc = "agent"
    /\ activeCalls' = MapSet(activeCalls, tick[p].lead, tick[p].agent)
    /\ IF tick[p].agent = NoAgent
       THEN /\ tick' = [tick EXCEPT ![p] = IdleTick]
            /\ UNCHANGED leads
       ELSE /\ leads' = ClaimLead(leads, tick[p].lead, tick[p].agent, now)
            /\ tick' = [tick EXCEPT ![p].pc = "leadSaved"]
    /\ UNCHANGED <<now, calls, users, isRunning, maxConcurrentCalls, manual,
                   hook, reset, placed, nCallbacks, selected, creates, hooks,
                   boot>>

\* no salesperson: return; otherwise activeCalls.set and makeCall up to the
\* lead.save()
ProcessQueueClaim(p) ==
    /\ tick[p].pc = "agent"
    /\ IF tick[p].agent = NoAgent
       THEN /\ tick' = [tick EXCEPT ![p] = IdleTick]
            /\ UNCHANGED <<activeCalls, leads, creates, hooks, boot>>
       ELSE /\ activeCalls' = MapSet(activeCalls, tick[p].lead, tick[p].agent)
            /\ leads' = ClaimLead(leads, tick[p].lead, tick[p].agent, now)
            /\ tick' = [tick EXCEPT ![p].pc = "leadSaved"]
    /\ UNCHANGED <<now, calls, users, isRunning, maxConcurrentCalls, manual,
                   hook, reset, placed, nCallbacks, selected, creates, hooks,
                   boot>>

\* new CallLog({... status: 'initiated'}); callLog.save()
MakeCallCreateLog(p) ==
    /\ tick[p].pc = "leadSaved"
    /\ calls' = Append(calls, NewCallLog(tick[p].lead, tick[p].agent, "queue"))
    /\ tick' = [tick EXCEPT ![p].pc = "logSaved", ![p].call = Len(calls) + 1]
    /\ UNCHANGED <<now, leads, users, activeCalls, isRunning, maxConcurrentCalls,
                   manual, hook, reset, placed, nCallbacks, selected,
                   creates, hooks, boot>>

\* initiateCall: the gateway accepts the call or the placement fails
MakeCallInitiate(p, ok) ==
    /\ tick[p].pc = "logSaved"
    /\ IF ok
       THEN /\ placed' = placed \cup {tick[p].call}
            /\ tick' = [tick EXCEPT ![p].pc = "accepted"]
       ELSE /\ placed' = placed
            /\ tick' = [tick EXCEPT ![p].pc = "rejected", ![p].log = tick[p].call]
    /\ UNCHANGED <<now, leads, calls, users, activeCalls, isRunning,
                   maxConcurrentCalls, manual, hook, reset, nCallbacks, selected,
                   creates, hooks, boot>>

\* callLog.twilioCallSid = callResult.callSid; callLog.save()
SaveSid(cs, c) == [cs EXCEPT ![c].twilioCallSid = c]

\* the save of the sid succeeds, or it throws: the catch of makeCall calls
\* handleCallFailure(lead, null, error.message)
MakeCallSaveSid(p, ok) ==
    /\ tick[p].pc = "accepted"
    /\ IF ok
       THEN /\ calls' = SaveSid(calls, tick[p].call)
            /\ tick' = [tick EXCEPT ![p] = IdleTick]
       ELSE /\ calls' = calls
            /\ tick' = [tick EXCEPT ![p].pc = "rejected", ![p].log = NoCall]
    /\ UNCHANGED <<now, leads, users, activeCalls, isRunning, maxConcurrentCalls,
                   manual, hook, reset, placed, nCallbacks, selected,
                   creates, hooks, boot>>

\* handleCallFailure: the lead is reverted and saved; when the save throws,
\* the catch of handleCallFailure logs the error and the function returns
HandleCallFailureLead(p, ok) ==
    /\ tick[p].pc = "rejected"
    /\ IF ok
       THEN /\ leads' = RevertLead(leads, tick[p].lead, now)
            /\ tick' = [tick EXCEPT ![p].pc = "failLeadSaved"]
       ELSE /\ leads' = leads
            /\ tick' = [tick EXCEPT ![p] = IdleTick]
    /\ UNCHANGED <<now, calls, users, activeCalls, isRunning, maxConcurrentCalls,
                   manual, hook, reset, placed, nCallbacks, selected,
                   creates, hooks, boot>>

\* callLog.status = 'failed'; callLog.errorMessage = error; callLog.save()
FailCallLog(cs, c) == [cs EXCEPT ![c].status = "failed", ![c].errorMessage = TRUE]

\* handleCallFailure: the call log, if one was handed over, is marked failed
\* and saved
HandleCallFailureLog(p) ==
    /\ tick[p].pc = "failLeadSaved"
    /\ calls' = IF tick[p].log = NoCall THEN calls
                ELSE FailCallLog(calls, tick[p].log)
    /\ tick' = [tick EXCEPT ![p].pc = "failLogSaved"]
    /\ UNCHANGED <<now, leads, users, activeCalls, isRunning, maxConcurrentCalls,
                   manual, hook, reset, placed, nCallbacks, selected,
                   creates, hooks, boot>>

\* handleCallFailure: activeCalls.delete
HandleCallFailureRelease(p) ==
    /\ tick[p].pc = "failLogSaved"
    /\ activeCalls' = MapDelete(activeCalls, tick[p].lead)
    /\ tick' = [tick EXCEPT ![p] = IdleTick]
    /\ UNCHANGED <<now, leads, calls, users, isRunning, maxConcurrentCalls,
                   manual, hook, reset, placed, nCallbacks, selected,
                   creates, hooks, boot>>

----------------------------------------------------------------------------
(* Stuck lead recovery: CallQueue.resetStuckLeads                          *)

\* Lead.find({status: 'calling', updatedAt: {$lt: now - 5 minutes}})
StuckLeads(ls, t) ==
    {l \in DOMAIN ls : ls[l].status = "calling" /\ ls[l].updatedAt < t - StuckMinutes}

ResetStuckLeadsFind ==
    /\ reset = {}
    /\ StuckLeads(leads, now) # {}
    /\ reset' = StuckLeads(leads, now)
    /\ UNCHANGED <<now, leads, calls, users, activeCalls, isRunning,
                   maxConcurrentCalls, tick, manual, hook, placed, nCallbacks,
                   selected, creates, hooks, boot>>

\* one turn of the for loop: the next document found is reset and saved
ResetStuckLeadsSave ==
    /\ reset # {}
    /\ LET l == CHOOSE x \in reset : \A y \in reset : x <= y IN
          /\ leads' = RevertLead(leads, l, now)
          /\ reset' = reset \ {l}
    /\ UNCHANGED <<now, calls, users, activeCalls, isRunning, maxConcurrentCalls,
                   tick, manual, hook, placed, nCallbacks, selected, creates,
                   hooks, boot>>

----------------------------------------------------------------------------
(* Process start: CallQueue.initialize, called without await by the        *)
(* mongoose.connect().then callback, which goes on to server.listen        *)

\* await this.resetStuckLeads(): the Lead.find
InitializeFind ==
    /\ boot = "new"
    /\ reset' = StuckLeads(leads, now)
    /\ boot' = "resetting"
    /\ UNCHANGED <<now, leads, calls, users, activeCalls, isRunning,
                   maxConcurrentCalls, tick, manual, hook, placed, nCallbacks,
                   selected, creates, hooks>>

\* one turn of the for loop of the startup resetStuckLeads
InitializeSave ==
    /\ boot = "resetting"
    /\ ResetStuckLeadsSave

\* resetStuckLeads has returned: this.start()
InitializeStart ==
    /\ boot = "resetting"
    /\ reset = {}
    /\ isRunning' = TRUE
    /\ boot' = "started"
    /\ UNCHANGED <<now, leads, calls, users, activeCalls, maxConcurrentCalls,
                   tick, manual, hook, reset, placed, nCallbacks, selected,
                   creates, hooks>>

Initialize == InitializeFind \/ InitializeSave \/ InitializeStart

----------------------------------------------------------------------------
(* Manual call start: POST /api/calls/initiate (route "initiate", with an  *)
(* optional salespersonId) and POST /api/operator/calls/start (route       *)
(* "start", the salesperson is the requesting operator)                    *)

\* Lead.findById(leadId)
ManualRead(r, l, a) ==
    /\ manual.pc = "idle"
    /\ CallsCommitted < MaxCalls
    /\ r = "start" => a # NoAgent
    /\ manual' = [IdleManual EXCEPT !.pc = "read", !.route = r, !.lead = l,
                                    !.agent = a, !.ldoc = leads[l]]
    /\ UNCHANGED <<now, leads, calls, users, activeCalls, isRunning,
                   maxConcurrentCalls, tick, hook, reset, placed, nCallbacks,
                   selected, creates, hooks, boot>>

\* the checks on the loaded lead that answer 400
ManualRejects ==
    \/ ~manual.ldoc.isActive
    \/ /\ manual.route = "start"
       /\ manual.ldoc.assignedTo # NoAgent
       /\ manual.ldoc.assignedTo # manual.agent
    \/ manual.ldoc.status = "calling"

\* the salesperson /initiate finds: the one named when it is available,
\* else any available active one; NoAgent when there is none
ManualSalespeople(us, a) ==
    IF a # NoAgent
    THEN IF us[a].isAvailable THEN {a} ELSE {NoAgent}
    ELSE IF \E b \in DOMAIN us : us[b].isAvailable /\ us[b].isActive
         THEN {b \in DOMAIN us : us[b].isAvailable /\ us[b].isActive}
         ELSE {NoAgent}

\* the checks; then /initiate looks the salesperson up and /calls/start saves
\* the lead as calling
ManualCheck ==
    /\ manual.pc = "read"
    /\ IF ManualRejects
       THEN manual' = IdleManual /\ UNCHANGED leads
       ELSE IF manual.route = "start"
       THEN /\ leads' = ClaimLead(leads, manual.lead, manual.agent, now)
            /\ manual' = [manual EXCEPT !.pc = "leadSaved"]
       ELSE /\ \E a \in ManualSalespeople(users, manual.agent) :
                  manual' = [manual EXCEPT !.pc = "agent", !.agent = a]
            /\ UNCHANGED leads
    /\ UNCHANGED <<now, calls, users, activeCalls, isRunning, maxConcurrentCalls,
                   tick, hook, reset, placed, nCallbacks, selected, creates,
                   hooks, boot>>

\* /initiate: no salesperson answers 400; otherwise the lead is saved as calling
ManualClaim ==
    /\ manual.pc = "agent"
    /\ IF manual.agent = NoAgent
       THEN manual' = IdleManual /\ UNCHANGED leads
       ELSE /\ leads' = ClaimLead(leads, manual.lead, manual.agent, now)
            /\ manual' = [manual EXCEPT !.pc = "leadSaved"]
    /\ UNCHANGED <<now, calls, users, activeCalls, isRunning, maxConcurrentCalls,
                   tick, hook, reset, placed, nCallbacks, selected, creates,
                   hooks, boot>>

ManualCreateLog ==
    /\ manual.pc = "leadSaved"
    /\ calls' = Append(calls, NewCallLog(manual.lead, manual.agent, "manual"))
    /\ manual' = [manual EXCEPT !.pc = "logSaved", !.call = Len(calls) + 1]
    /\ UNCHANGED <<now, leads, users, activeCalls, isRunning, maxConcurrentCalls,
                   tick, hook, reset, placed, nCallbacks, selected, creates,
                   hooks, boot>>

ManualInitiate(ok) ==
    /\ manual.pc = "logSaved"
    /\ IF ok
       THEN /\ placed' = placed \cup {manual.call}
            /\ manual' = [manual EXCEPT !.pc = "accepted"]
       ELSE /\ placed' = placed
            /\ manual' = [manual EXCEPT !.pc = "rejected"]
    /\ UNCHANGED <<now, leads, calls, users, activeCalls, isRunning,
                   maxConcurrentCalls, tick, hook, reset, nCallbacks, selected,
                   creates, hooks, boot>>

ManualSaveSid ==
    /\ manual.pc = "accepted"
    /\ calls' = SaveSid(calls, manual.call)
    /\ manual' = IdleManual
    /\ UNCHANGED <<now, leads, users, activeCalls, isRunning, maxConcurrentCalls,
                   tick, hook, reset, placed, nCallbacks, selected, creates,
                   hooks, boot>>

\* revert lead status on failure
ManualRevertLead ==
    /\ manual.pc = "rejected"
    /\ leads' = RevertLead(leads, manual.lead, now)
    /\ manual' = [manual EXCEPT !.pc = "failLeadSaved"]
    /\ UNCHANGED <<now, calls, users, activeCalls, isRunning, maxConcurrentCalls,
                   tick, hook, reset, placed, nCallbacks, selected, creates,
                   hooks, boot>>

ManualFailLog ==
    /\ manual.pc = "failLeadSaved"
    /\ calls' = FailCallLog(calls, manual.call)
    /\ manual' = IdleManual
    /\ UNCHANGED <<now, leads, users, activeCalls, isRunning, maxConcurrentCalls,
                   tick, hook, reset, placed, nCallbacks, selected, creates,
                   hooks, boot>>

ManualStart ==
    \/ \E r \in {"initiate", "start"}, l \in LeadIds, a \in AgentIds \cup {NoAgent} :
          ManualRead(r, l, a)
    \/ ManualCheck
    \/ ManualClaim
    \/ ManualCreateLog
    \/ \E ok \in BOOLEAN : ManualInitiate(ok)
    \/ ManualSaveSid
    \/ ManualRevertLead
    \/ ManualFailLog

----------------------------------------------------------------------------
(* Provider status callback: POST /api/calls/webhook/status and            *)
(* handleCallStatusUpdate                                                  *)

\* the statuses the provider reports; "in-progress" is one the switch of
\* handleCallStatusUpdate does not list
ProviderStatuses == CallStatuses \cup {"in-progress"}

\* durations, in seconds, a completed callback carries
Durations == {0, 120}

\* the switch as it would be without its default case
MapStatusUnchecked(s) == s

\* the switch of handleCallStatusUpdate: the status of the call log
MapStatus(s) == IF s \in CallStatuses THEN s ELSE "failed"

\* the switch of handleCallStatusUpdate: additionalData
AdditionalData(s, d) ==
    [hasDuration |-> s = "completed", duration |-> d,
     hasError |-> s \notin CallStatuses]

\* POST /webhook/status answering 200 whether or not the call log was found
StatusReplyAlwaysOk(found, threw) == 200

\* the HTTP status of POST /webhook/status: 404 without a call log, 500 when
\* handleCallStatusUpdate throws, 200 otherwise
StatusReply(found, threw) ==
    IF ~found THEN 404
    ELSE IF threw THEN 500
    ELSE 200

\* CallLog.findOne({twilioCallSid: CallSid}); the provider reports on a call
\* it accepted, c is that call's sid.  No call log: 404.  The model delivers
\* at most budget callbacks.
Receive(c, s, d, budget) ==
    /\ hook.pc = "idle"
    /\ nCallbacks < budget
    /\ c \in placed
    /\ s # "completed" => d = 0
    /\ nCallbacks' = nCallbacks + 1
    /\ IF calls[c].twilioCallSid = c
       THEN hook' = [IdleHook EXCEPT !.pc = "found", !.route = "webhook",
                                     !.call = c, !.status = s, !.duration = d,
                                     !.doc = calls[c], !.was = calls[c].status]
       ELSE hook' = [IdleHook EXCEPT !.reply = StatusReply(FALSE, FALSE)]
    /\ UNCHANGED <<now, leads, calls, users, activeCalls, isRunning,
                   maxConcurrentCalls, tick, manual, reset, placed, selected,
                   creates, hooks, boot>>

HookReceive(c, s, d) == Receive(c, s, d, MaxCallbacks)

\* callLog.updateStatus(status, additionalData)
HookUpdateLog ==
    /\ hook.pc = "found"
    /\ LET new == updateStatus(hook.doc, MapStatus(hook.status),
                               AdditionalData(hook.status, hook.duration), now)
       IN  /\ calls' = [calls EXCEPT ![hook.call] = SaveCallLog(@, hook.doc, new)]
           /\ hook' = [hook EXCEPT !.pc = "logSaved", !.doc = new]
    /\ UNCHANGED <<now, leads, users, activeCalls, isRunning, maxConcurrentCalls,
                   tick, manual, reset, placed, nCallbacks, selected,
                   creates, hooks, boot>>

\* Lead.findById(callLog.lead)
HookReadLead ==
    /\ hook.pc = "logSaved"
    /\ hook' = [hook EXCEPT !.pc = "leadRead", !.ldoc = leads[hook.doc.lead]]
    /\ UNCHANGED <<now, leads, calls, users, activeCalls, isRunning,
                   maxConcurrentCalls, tick, manual, reset, placed, nCallbacks,
                   selected, creates, hooks, boot>>

\* the branch as it would be if ringing counted as an unanswered call
LeadAfterStatusCounted(cur, ldoc, status, t) ==
    IF status \in {"busy", "no-answer", "failed", "ringing"}
    THEN LET new == updateCallStatus(ldoc, IF status = "ringing"
                                           THEN "no_answer" ELSE status, t) IN
         IF ValidLead(new) THEN SaveLead(cur, ldoc, new, t) ELSE cur
    ELSE cur

\* the lead after handleCallStatusUpdate's branch on the status: answered and
\* completed assign lead.status and do not save; busy, no-answer and failed
\* call lead.updateCallStatus, whose save is rejected when validation fails
LeadAfterStatus(cur, ldoc, status, t) ==
    IF status \in {"busy", "no-answer", "failed"}
    THEN LET new == updateCallStatus(ldoc, status, t) IN
         IF ValidLead(new) THEN SaveLead(cur, ldoc, new, t) ELSE cur
    ELSE cur

\* lead.updateCallStatus rejects: handleCallStatusUpdate rethrows
LeadSaveThrows(ldoc, status, t) ==
    /\ status \in {"busy", "no-answer", "failed"}
    /\ ~ValidLead(updateCallStatus(ldoc, status, t))

HookUpdateLead ==
    /\ hook.pc = "leadRead"
    /\ leads' = [leads EXCEPT ![hook.doc.lead] =
                    LeadAfterStatus(@, hook.ldoc, MapStatus(hook.status), now)]
    /\ hook' = [IdleHook EXCEPT !.reply =
                    StatusReply(TRUE, LeadSaveThrows(hook.ldoc,
                                                     MapStatus(hook.status), now))]
    /\ UNCHANGED <<now, calls, users, activeCalls, isRunning, maxConcurrentCalls,
                   tick, manual, reset, placed, nCallbacks, selected,
                   creates, hooks, boot>>

StatusCallback ==
    \/ \E c \in 1..MaxCalls, s \in ProviderStatuses, d \in Durations :
          HookReceive(c, s, d)
    \/ HookUpdateLog
    \/ HookReadLead
    \/ HookUpdateLead

----------------------------------------------------------------------------
(* Overlapping status callbacks: the same handler, POST                    *)
(* /api/calls/webhook/status, with several requests in flight; request k   *)
(* keeps its position and locals in hooks[k]                               *)

\* CallLog.findOne({twilioCallSid: CallSid})
OverlapReceive(k, c, s, d) ==
    /\ hooks[k].pc = "idle"
    /\ nCallbacks < MaxCallbacks
    /\ c \in placed
    /\ s # "completed" => d = 0
    /\ nCallbacks' = nCallbacks + 1
    /\ hooks' = [hooks EXCEPT ![k] =
                    IF calls[c].twilioCallSid = c
                    THEN [IdleHook EXCEPT !.pc = "found", !.route = "webhook",
                                          !.call = c, !.status = s,
                                          !.duration = d, !.doc = calls[c],
                                          !.was = calls[c].status]
                    ELSE [IdleHook EXCEPT !.reply = StatusReply(FALSE, FALSE)]]
    /\ UNCHANGED <<now, leads, calls, users, activeCalls, isRunning,
                   maxConcurrentCalls, tick, manual, hook, reset, placed,
                   selected, creates, boot>>

\* callLog.updateStatus(status, additionalData)
OverlapUpdateLog(k) ==
    /\ hooks[k].pc = "found"
    /\ LET h == hooks[k]
           new == updateStatus(h.doc, MapStatus(h.status),
                               AdditionalData(h.status, h.duration), now)
       IN  /\ calls' = [calls EXCEPT ![h.call] = SaveCallLog(@, h.doc, new)]
           /\ hooks' = [hooks EXCEPT ![k].pc = "logSaved", ![k].doc = new]
    /\ UNCHANGED <<now, leads, users, activeCalls, isRunning, maxConcurrentCalls,
                   tick, manual, hook, reset, placed, nCallbacks, selected,
                   creates, boot>>

\* Lead.findById(callLog.lead)
OverlapReadLead(k) ==
    /\ hooks[k].pc = "logSaved"
    /\ hooks' = [hooks EXCEPT ![k].pc = "leadRead",
                              ![k].ldoc = leads[hooks[k].doc.lead]]
    /\ UNCHANGED <<now, leads, calls, users, activeCalls, isRunning,
                   maxConcurrentCalls, tick, manual, hook, reset, placed,
                   nCallbacks, selected, creates, boot>>

\* the branch on the status, with lead.updateCallStatus and its save
OverlapUpdateLead(k) ==
    /\ hooks[k].pc = "leadRead"
    /\ LET h == hooks[k] IN
          /\ leads' = [leads EXCEPT ![h.doc.lead] =
                          LeadAfterStatus(@, h.ldoc, MapStatus(h.status), now)]
          /\ hooks' = [hooks EXCEPT ![k] =
                          [IdleHook EXCEPT !.reply =
                              StatusReply(TRUE, LeadSaveThrows(h.ldoc,
                                                   MapStatus(h.status), now))]]
    /\ UNCHANGED <<now, calls, users, activeCalls, isRunning, maxConcurrentCalls,
                   tick, manual, hook, reset, placed, nCallbacks, selected,
                   creates, boot>>

OverlapCallback ==
    \E k \in Hooks :
        \/ \E c \in 1..MaxCalls, s \in ProviderStatuses, d \in Durations :
              OverlapReceive(k, c, s, d)
        \/ OverlapUpdateLog(k)
        \/ OverlapReadLead(k)
        \/ OverlapUpdateLead(k)

----------------------------------------------------------------------------
(* The answer webhook: POST /api/calls/webhook/answer, requested by the    *)
(* provider when the lead picks up                                         *)

\* CallLog.findOne({twilioCallSid: CallSid}); no call log: 404
AnswerReceive(c) ==
    /\ hook.pc = "idle"
    /\ nCallbacks < MaxCallbacks
    /\ c \in placed
    /\ nCallbacks' = nCallbacks + 1
    /\ IF calls[c].twilioCallSid = c
       THEN hook' = [IdleHook EXCEPT !.pc = "aFound", !.route = "answer",
                                     !.call = c, !.status = "answered",
                                     !.doc = calls[c], !.was = calls[c].status]
       ELSE hook' = IdleHook
    /\ UNCHANGED <<now, leads, calls, users, activeCalls, isRunning,
                   maxConcurrentCalls, tick, manual, reset, placed, selected,
                   creates, hooks, boot>>

\* callLog.updateStatus('answered')
AnswerUpdateLog ==
    /\ hook.pc = "aFound"
    /\ LET new == updateStatus(hook.doc, "answered",
                               AdditionalData("answered", 0), now)
       IN  /\ calls' = [calls EXCEPT ![hook.call] = SaveCallLog(@, hook.doc, new)]
           /\ hook' = [hook EXCEPT !.pc = "aLogSaved", !.doc = new]
    /\ UNCHANGED <<now, leads, users, activeCalls, isRunning, maxConcurrentCalls,
                   tick, manual, reset, placed, nCallbacks, selected,
                   creates, hooks, boot>>

\* Lead.findById(callLog.lead)
AnswerReadLead ==
    /\ hook.pc = "aLogSaved"
    /\ hook' = [hook EXCEPT !.pc = "aLeadRead", !.ldoc = leads[hook.doc.lead]]
    /\ UNCHANGED <<now, leads, calls, users, activeCalls, isRunning,
                   maxConcurrentCalls, tick, manual, reset, placed, nCallbacks,
                   selected, creates, hooks, boot>>

\* lead.status = 'answered'; lead.save(); then the TwiML response
AnswerSaveLead ==
    /\ hook.pc = "aLeadRead"
    /\ leads' = [leads EXCEPT ![hook.doc.lead] =
                    SaveLead(@, hook.ldoc,
                             [hook.ldoc EXCEPT !.status = "answered"], now)]
    /\ hook' = IdleHook
    /\ UNCHANGED <<now, calls, users, activeCalls, isRunning, maxConcurrentCalls,
                   tick, manual, reset, placed, nCallbacks, selected,
                   creates, hooks, boot>>

AnswerWebhook ==
    \/ \E c \in 1..MaxCalls : AnswerReceive(c)
    \/ AnswerUpdateLog
    \/ AnswerReadLead
    \/ AnswerSaveLead

----------------------------------------------------------------------------
(* Manual status update: PUT /api/calls/:id/status (route "status") and    *)
(* PUT /api/operator/calls/:id/update (route "update", requested by the    *)
(* salesperson of the call).  The request body carries a status and a      *)
(* duration of 0.                                                          *)

ManualRoutes == {"status", "update"}

\* the statuses entered by hand in the model
ConsoleStatuses == {"ringing", "answered", "completed", "busy"}

\* CallLog.findById(id); the model counts the request as a delivered status
\* update, and a status is entered only for a call whose placement has
\* finished
StatusUpdateRead(r, c, s) ==
    /\ hook.pc = "idle"
    /\ nCallbacks < MaxCallbacks
    /\ c \in 1..Len(calls)
    /\ calls[c].twilioCallSid = c
    /\ nCallbacks' = nCallbacks + 1
    /\ hook' = [IdleHook EXCEPT !.pc = "mFound", !.route = r, !.call = c,
                                !.status = s, !.doc = calls[c],
                                !.was = calls[c].status]
    /\ UNCHANGED <<now, leads, calls, users, activeCalls, isRunning,
                   maxConcurrentCalls, tick, manual, reset, placed, selected,
                   creates, hooks, boot>>

\* the additionalData object of the two routes: {duration, notes} and, for
\* route "status", errorCode and errorMessage, which the body leaves undefined
ManualUpdateStatus(doc, r, status, t) ==
    LET d == updateStatus(doc, status,
                          [hasDuration |-> TRUE, duration |-> 0,
                           hasError |-> FALSE], t)
    IN  IF r = "status" THEN [d EXCEPT !.errorMessage = FALSE] ELSE d

\* call.updateStatus(status, {...}); route "status" is done unless the status
\* is answered or completed
StatusUpdateLog ==
    /\ hook.pc = "mFound"
    /\ LET new == ManualUpdateStatus(hook.doc, hook.route, hook.status, now) IN
          /\ calls' = [calls EXCEPT ![hook.call] = SaveCallLog(@, hook.doc, new)]
          /\ hook' = IF hook.route = "status"
                         /\ hook.status \notin {"answered", "completed"}
                      THEN IdleHook
                      ELSE [hook EXCEPT !.pc = "mLogSaved", !.doc = new]
    /\ UNCHANGED <<now, leads, users, activeCalls, isRunning, maxConcurrentCalls,
                   tick, manual, reset, placed, nCallbacks, selected,
                   creates, hooks, boot>>

\* Lead.findById(call.lead)
StatusUpdateReadLead ==
    /\ hook.pc = "mLogSaved"
    /\ hook' = [hook EXCEPT !.pc = "mLeadRead", !.ldoc = leads[hook.doc.lead]]
    /\ UNCHANGED <<now, leads, calls, users, activeCalls, isRunning,
                   maxConcurrentCalls, tick, manual, reset, placed, nCallbacks,
                   selected, creates, hooks, boot>>

\* route "status": lead.status = 'answered' or 'transferred'; lead.save()
LeadAfterManualStatus(cur, ldoc, status, t) ==
    LET new == [ldoc EXCEPT !.status = IF status = "answered" THEN "answered"
                                       ELSE "transferred"]
    IN  IF new = ldoc THEN cur ELSE SaveLead(cur, ldoc, new, t)

\* route "status" saves the lead; route "update" has the branch of
\* handleCallStatusUpdate
StatusUpdateLead ==
    /\ hook.pc = "mLeadRead"
    /\ leads' = [leads EXCEPT ![hook.doc.lead] =
                    IF hook.route = "status"
                    THEN LeadAfterManualStatus(@, hook.ldoc, hook.status, now)
                    ELSE LeadAfterStatus(@, hook.ldoc, hook.status, now)]
    /\ hook' = IdleHook
    /\ UNCHANGED <<now, calls, users, activeCalls, isRunning, maxConcurrentCalls,
                   tick, manual, reset, placed, nCallbacks, selected,
                   creates, hooks, boot>>

ManualStatusUpdate ==
    \/ \E r \in ManualRoutes, c \in 1..MaxCalls, s \in ConsoleStatuses :
          StatusUpdateRead(r, c, s)
    \/ StatusUpdateLog
    \/ StatusUpdateReadLead
    \/ StatusUpdateLead

----------------------------------------------------------------------------
(* Administration: POST /api/admin/leads/bulk-action and PUT /api/leads/:id *)

\* PUT /api/leads/:id with body {status: st, isActive: act}: Lead.findById,
\* the body's keys are assigned and the lead is saved.  The read and the save
\* are one step of the model.
UpdateLead(l, st, act) ==
    /\ leads[l].status # st \/ leads[l].isActive # act
    /\ leads' = [leads EXCEPT ![l].status = st, ![l].isActive = act,
                              ![l].updatedAt = now]
    /\ UNCHANGED <<now, calls, users, activeCalls, isRunning, maxConcurrentCalls,
                   tick, manual, hook, reset, placed, nCallbacks, selected,
                   creates, hooks, boot>>

\* the statuses an administrator sets in the model
BulkStatuses == {"pending"}

\* action 'update_status': Lead.updateMany({_id: {$in: [l]}}, {status: st})
BulkUpdateStatus(l, st) ==
    /\ leads[l].status # st
    /\ leads' = [leads EXCEPT ![l].status = st, ![l].updatedAt = now]
    /\ UNCHANGED <<now, calls, users, activeCalls, isRunning, maxConcurrentCalls,
                   tick, manual, hook, reset, placed, nCallbacks, selected,
                   creates, hooks, boot>>

\* action 'delete': Lead.updateMany({_id: {$in: [l]}}, {isActive: false})
BulkDelete(l) ==
    /\ leads[l].isActive
    /\ leads' = [leads EXCEPT ![l].isActive = FALSE, ![l].updatedAt = now]
    /\ UNCHANGED <<now, calls, users, activeCalls, isRunning, maxConcurrentCalls,
                   tick, manual, hook, reset, placed, nCallbacks, selected,
                   creates, hooks, boot>>

----------------------------------------------------------------------------
(* Environment *)

\* time passes; the clock of the model moves in steps of the shortest retry
\* delay
AdvanceClock ==
    /\ now + BusyDelay <= MaxNow
    /\ now' = now + BusyDelay
    /\ UNCHANGED <<leads, calls, users, activeCalls, isRunning, maxConcurrentCalls,
                   tick, manual, hook, reset, placed, nCallbacks, selected,
                   creates, hooks, boot>>

\* pause() as it would be if it dropped the calls in flight
PauseDropping ==
    /\ isRunning' = FALSE
    /\ activeCalls' = [l \in {} |-> NoAgent]
    /\ UNCHANGED <<now, leads, calls, users, maxConcurrentCalls, tick, manual,
                   hook, reset, placed, nCallbacks, selected, creates, hooks,
                   boot>>

\* POST /system/control pause_queue: CallQueue.pause calls stop() when the
\* queue runs; stop clears the interval, so no further tick starts
Pause ==
    /\ isRunning' = FALSE
    /\ UNCHANGED <<now, leads, calls, users, activeCalls, maxConcurrentCalls,
                   tick, manual, hook, reset, placed, nCallbacks, selected,
                   creates, hooks, boot>>

\* POST /system/control resume_queue: CallQueue.resume calls start() when the
\* queue is stopped; start sets the interval again
Resume ==
    /\ isRunning' = TRUE
    /\ UNCHANGED <<now, leads, calls, users, activeCalls, maxConcurrentCalls,
                   tick, manual, hook, reset, placed, nCallbacks, selected,
                   creates, hooks, boot>>

\* PUT /api/users/:id/availability
SetAvailability(a, b) ==
    /\ users[a].isAvailable # b
    /\ users' = [users EXCEPT ![a].isAvailable = b]
    /\ UNCHANGED <<now, leads, calls, activeCalls, isRunning, maxConcurrentCalls,
                   tick, manual, hook, reset, placed, nCallbacks, selected,
                   creates, hooks, boot>>

\* PUT /api/users/:id/activate: a deactivated user is made unavailable too
SetActive(a, b) ==
    /\ users' = [users EXCEPT ![a].isActive = b,
                              ![a].isAvailable = IF b THEN @ ELSE FALSE]
    /\ UNCHANGED <<now, leads, calls, activeCalls, isRunning, maxConcurrentCalls,
                   tick, manual, hook, reset, placed, nCallbacks, selected,
                   creates, hooks, boot>>

\* PUT /api/users/:id with isActive and isAvailable in the body: every body
\* key that is a schema path is assigned, then the user is saved
UpdateUser(a, act, av) ==
    /\ users' = [users EXCEPT ![a].isActive = act, ![a].isAvailable = av]
    /\ UNCHANGED <<now, leads, calls, activeCalls, isRunning, maxConcurrentCalls,
                   tick, manual, hook, reset, placed, nCallbacks, selected,
                   creates, hooks, boot>>

\* one processQueue invocation; the store accepts every save
Tick(p) ==
        \/ ProcessQueueSelect(p)
        \/ ProcessQueueFindAgent(p)
        \/ ProcessQueueClaim(p)
        \/ MakeCallCreateLog(p)
        \/ \E ok \in BOOLEAN : MakeCallInitiate(p, ok)
        \/ MakeCallSaveSid(p, TRUE)
        \/ HandleCallFailureLead(p, TRUE)
        \/ HandleCallFailureLog(p)
        \/ HandleCallFailureRelease(p)

Dispatcher == \E p \in Ticks : Tick(p)

Next ==
    \/ Dispatcher
    \/ ManualStart
    \/ \E l \in LeadIds : BulkDelete(l)
    \/ ResetStuckLeadsFind
    \/ ResetStuckLeadsSave
    \/ AdvanceClock
    \/ \E a \in AgentIds, b \in BOOLEAN : SetAvailability(a, b)

Spec == Init /\ [][Next]_vars

----------------------------------------------------------------------------
(* Reconciliation: a dispatcher whose ticks do not overlap, the provider's *)
(* status callbacks, stuck lead recovery and an administrator who requeues *)
(* leads                                                                   *)

CallbackNext ==
    \/ Tick(1)
    \/ StatusCallback
    \/ \E l \in LeadIds, st \in BulkStatuses : BulkUpdateStatus(l, st)
    \/ ResetStuckLeadsFind
    \/ ResetStuckLeadsSave
    \/ AdvanceClock

SpecCallback == Init /\ [][CallbackNext]_vars

----------------------------------------------------------------------------
(* Progress of the queue: ticks keep firing and do not overlap, a          *)
(* salesperson stays available, the gateway accepts every placement, and   *)
(* every placed call receives a terminal status callback                   *)

LiveTick ==
    \/ ProcessQueueSelect(1)
    \/ ProcessQueueFindAgent(1)
    \/ ProcessQueueClaim(1)
    \/ MakeCallCreateLog(1)
    \/ MakeCallInitiate(1, TRUE)
    \/ MakeCallSaveSid(1, TRUE)

\* the terminal status callback of a call that has not been reconciled yet;
\* it arrives after the call's sid was stored
LiveReceive ==
    \E c \in 1..MaxCalls, s \in Terminal :
        /\ c \in placed
        /\ calls[c].twilioCallSid = c
        /\ calls[c].status \notin Terminal
        /\ HookReceive(c, s, 0)

LiveCallback ==
    \/ LiveReceive
    \/ HookUpdateLog
    \/ HookReadLead
    \/ HookUpdateLead

LiveNext == LiveTick \/ LiveCallback \/ AdvanceClock

SpecLive ==
    /\ Init
    /\ [][LiveNext]_vars
    /\ WF_vars(LiveTick)
    /\ WF_vars(LiveCallback)

----------------------------------------------------------------------------
(* A conversation: the queue places calls, the provider requests the       *)
(* answer webhook and reports answered and completed                       *)

ConversationStatuses == {"answered", "completed"}

ConversationCallback ==
    \/ \E c \in 1..MaxCalls, s \in ConversationStatuses, d \in Durations :
          HookReceive(c, s, d)
    \/ HookUpdateLog
    \/ HookReadLead
    \/ HookUpdateLead

AnswerNext == LiveTick \/ AnswerWebhook \/ ConversationCallback \/ AdvanceClock

SpecAnswer == Init /\ [][AnswerNext]_vars

----------------------------------------------------------------------------
(* Pausing: an administrator pauses and resumes the queue while a tick and *)
(* status callbacks are under way                                          *)

PauseNext ==
    \/ Tick(1)
    \/ Pause
    \/ Resume
    \/ StatusCallback

SpecPause == Init /\ [][PauseNext]_vars

----------------------------------------------------------------------------
(* Roster: an administrator activates, deactivates and edits salespeople   *)
(* between calls, while the queue and the console place calls              *)

\* no call placement is under way
RosterQuiet ==
    /\ manual.pc = "idle"
    /\ \A p \in Ticks : tick[p].pc = "idle"

RosterEdit ==
    \/ \E a \in AgentIds, b \in BOOLEAN : SetActive(a, b)
    \/ \E a \in AgentIds, act \in BOOLEAN, av \in BOOLEAN : UpdateUser(a, act, av)
    \/ \E a \in AgentIds, b \in BOOLEAN : SetAvailability(a, b)

\* POST /api/calls/initiate, with or without a salespersonId
InitiateCall ==
    \/ \E l \in LeadIds, a \in AgentIds \cup {NoAgent} : ManualRead("initiate", l, a)
    \/ ManualCheck
    \/ ManualClaim
    \/ ManualCreateLog
    \/ \E ok \in BOOLEAN : ManualInitiate(ok)
    \/ ManualSaveSid
    \/ ManualRevertLead
    \/ ManualFailLog

RosterNext ==
    \/ Tick(1)
    \/ InitiateCall
    \/ RosterQuiet /\ RosterEdit

SpecRoster == Init /\ [][RosterNext]_vars

----------------------------------------------------------------------------
(* Overlap: the queue places calls and the provider's status callbacks     *)
(* are handled concurrently                                                *)

OverlapNext == LiveTick \/ OverlapCallback

SpecOverlap == Init /\ [][OverlapNext]_vars

----------------------------------------------------------------------------
(* Process start: the queue is constructed, the store holds leads a        *)
(* previous process left pending or calling more than 5 minutes ago, and   *)
(* the server accepts the administrator's pause and resume requests while  *)
(* initialize runs                                                         *)

BootInit ==
    /\ now = BusyDelay
    /\ \E st \in [LeadIds -> {"pending", "calling"}] :
          leads = [l \in LeadIds |->
                     [NewLead(l, InitPriority(l), l) EXCEPT
                        !.status = st[l],
                        !.assignedTo = IF st[l] = "calling" THEN 1 ELSE NoAgent]]
    /\ calls = <<>>
    /\ users = [a \in AgentIds |->
                  [isAvailable |-> TRUE, isActive |-> TRUE,
                   totalCalls |-> 0, successfulCalls |-> 0]]
    /\ activeCalls = [l \in {} |-> NoAgent]
    /\ isRunning = FALSE
    /\ maxConcurrentCalls = DefaultMaxConcurrentCalls
    /\ tick = [p \in Ticks |-> IdleTick]
    /\ manual = IdleManual
    /\ hook = IdleHook
    /\ reset = {}
    /\ placed = {}
    /\ nCallbacks = 0
    /\ selected = NotProbed
    /\ creates = [k \in Creators |-> IdleCreate]
    /\ hooks = [k \in Hooks |-> IdleHook]
    /\ boot = "new"

BootNext ==
    \/ Initialize
    \/ Tick(1)
    \/ Pause
    \/ Resume

SpecBoot == BootInit /\ [][BootNext]_vars

----------------------------------------------------------------------------
(* Staffing: overlapping ticks while the salespeople switch their          *)
(* availability                                                            *)

StaffNext ==
    \/ Dispatcher
    \/ \E a \in AgentIds, b \in BOOLEAN : SetAvailability(a, b)

SpecStaff == Init /\ [][StaffNext]_vars

----------------------------------------------------------------------------
(* Recovery of orphaned leads: ticks keep firing and do not overlap, a     *)
(* salesperson stays available, no status callback ever arrives, and an    *)
(* administrator runs reset_stuck_leads while the dispatcher is running    *)

RecoverReset == ResetStuckLeadsFind \/ ResetStuckLeadsSave

RecoverNext == Tick(1) \/ RecoverReset \/ AdvanceClock

SpecRecover ==
    /\ Init
    /\ [][RecoverNext]_vars
    /\ WF_vars(Tick(1))
    /\ WF_vars(RecoverReset)

----------------------------------------------------------------------------
(* Failures: ticks keep firing and do not overlap, a salesperson stays     *)
(* available, the gateway may reject a placement, and the store may fail   *)
(* the save of the sid in makeCall and the save of the lead in             *)
(* handleCallFailure                                                       *)

FaultTick ==
    \/ ProcessQueueSelect(1)
    \/ ProcessQueueFindAgent(1)
    \/ ProcessQueueClaim(1)
    \/ MakeCallCreateLog(1)
    \/ \E ok \in BOOLEAN : MakeCallInitiate(1, ok)
    \/ \E ok \in BOOLEAN : MakeCallSaveSid(1, ok)
    \/ \E ok \in BOOLEAN : HandleCallFailureLead(1, ok)
    \/ HandleCallFailureLog(1)
    \/ HandleCallFailureRelease(1)

FaultNext == FaultTick \/ AdvanceClock

SpecFault ==
    /\ Init
    /\ [][FaultNext]_vars
    /\ WF_vars(FaultTick)

----------------------------------------------------------------------------
(* The console: calls started by hand and status updates entered by hand, *)
(* with the dispatcher paused                                              *)

ConsoleNext ==
    \/ ManualStart
    \/ ManualStatusUpdate

SpecConsole == Init /\ [][ConsoleNext]_vars

----------------------------------------------------------------------------
(* Retirement: one lead after another is called, the provider reports      *)
(* countable outcomes, also repeatedly for the same call, and a user edits *)
(* leads through PUT /api/leads/:id                                        *)

CountableOutcomes == {"busy", "no-answer", "failed"}

OutcomeReceive ==
    \E c \in 1..MaxCalls, s \in CountableOutcomes : Receive(c, s, 0, MaxOutcomes)

OutcomeCallback ==
    \/ OutcomeReceive
    \/ HookUpdateLog
    \/ HookReadLead
    \/ HookUpdateLead

OutcomeNext ==
    \/ LiveTick
    \/ OutcomeCallback
    \/ \E l \in LeadIds : UpdateLead(l, "pending", TRUE)
    \/ AdvanceClock

SpecOutcome == Init /\ [][OutcomeNext]_vars

----------------------------------------------------------------------------
(* The model methods on their own, as test-system.js exercises them: a     *)
(* lead and a call log are created, then Lead.updateCallStatus and         *)
(* CallLog.updateStatus are applied to them while time passes              *)

MethodInit ==
    /\ now = 0
    /\ leads = [l \in LeadIds |-> NewLead(l, InitPriority(l), l)]
    /\ calls = <<[NewCallLog(1, 1, "test") EXCEPT !.twilioCallSid = 1]>>
    /\ users = [a \in AgentIds |->
                  [isAvailable |-> TRUE, isActive |-> TRUE,
                   totalCalls |-> 0, successfulCalls |-> 0]]
    /\ activeCalls = [l \in {} |-> NoAgent]
    /\ isRunning = FALSE
    /\ maxConcurrentCalls = DefaultMaxConcurrentCalls
    /\ tick = [p \in Ticks |-> IdleTick]
    /\ manual = IdleManual
    /\ hook = IdleHook
    /\ reset = {}
    /\ placed = {}
    /\ nCallbacks = 0
    /\ selected = NotProbed
    /\ creates = [k \in Creators |-> IdleCreate]
    /\ hooks = [k \in Hooks |-> IdleHook]
    /\ boot = "started"

\* await lead.updateCallStatus(s): the method and its save, which the
\* validators may reject
MethodUpdateCallStatus(l, s) ==
    /\ Len(leads[l].callHistory) < MaxHistory
    /\ LET new == updateCallStatus(leads[l], s, now) IN
          leads' = [leads EXCEPT ![l] =
                      IF ValidLead(new) THEN SaveLead(@, @, new, now) ELSE @]
    /\ UNCHANGED <<now, calls, users, activeCalls, isRunning, maxConcurrentCalls,
                   tick, manual, hook, reset, placed, nCallbacks, selected,
                   creates, hooks, boot>>

\* await callLog.updateStatus(s) when has is false,
\* await callLog.updateStatus(s, {duration: d}) when it is true
MethodUpdateStatus(c, s, has, d) ==
    /\ ~has => d = 0
    /\ LET extra == [hasDuration |-> has, duration |-> d, hasError |-> FALSE]
           new == updateStatus(calls[c], s, extra, now)
       IN  calls' = [calls EXCEPT ![c] = SaveCallLog(@, @, new)]
    /\ UNCHANGED <<now, leads, users, activeCalls, isRunning, maxConcurrentCalls,
                   tick, manual, hook, reset, placed, nCallbacks, selected,
                   creates, hooks, boot>>

\* the lead that testLeadModel creates
MethodLead == 1

LeadMethodNext ==
    \/ \E s \in LeadStatuses \cup {"no-answer"} :
          MethodUpdateCallStatus(MethodLead, s)
    \/ AdvanceClock

SpecLeadMethod == MethodInit /\ [][LeadMethodNext]_vars

LogMethodNext ==
    \/ \E c \in 1..Len(calls), s \in CallStatuses, has \in BOOLEAN,
          d \in Durations : MethodUpdateStatus(c, s, has, d)
    \/ AdvanceClock

SpecLogMethod == MethodInit /\ [][LogMethodNext]_vars

----------------------------------------------------------------------------
(* Lead creation: POST /api/leads requests, which may overlap, on a store  *)
(* that starts empty.  The collection has a unique index on phone.         *)

\* a stored lead has the phone number
PhoneStored(ls, ph) == \E l \in DOMAIN ls : ls[l].phone = ph

\* Lead.findOne({phone}): a lead with the number answers 400
CreateRead(k, ph) ==
    /\ creates[k].pc = "idle"
    /\ creates' = [creates EXCEPT ![k] =
                      IF PhoneStored(leads, ph)
                      THEN [pc |-> "idle", phone |-> ph, reply |-> 400]
                      ELSE [pc |-> "checked", phone |-> ph, reply |-> NoReply]]
    /\ UNCHANGED <<now, leads, calls, users, activeCalls, isRunning,
                   maxConcurrentCalls, tick, manual, hook, reset, placed,
                   nCallbacks, selected, hooks, boot>>

\* CreateSave as it would be without the unique index on phone
CreateSaveUnindexed(k) ==
    /\ creates[k].pc = "checked"
    /\ leads' = Append(leads, NewLead(creates[k].phone, "medium", now))
    /\ creates' = [creates EXCEPT ![k].pc = "idle", ![k].reply = 201]
    /\ UNCHANGED <<now, calls, users, activeCalls, isRunning, maxConcurrentCalls,
                   tick, manual, hook, reset, placed, nCallbacks, selected,
                   hooks, boot>>

\* new Lead({...}).save(): the unique index rejects a stored number with
\* E11000, which the catch answers with 500; otherwise 201
CreateSave(k) ==
    /\ creates[k].pc = "checked"
    /\ IF PhoneStored(leads, creates[k].phone)
       THEN /\ leads' = leads
            /\ creates' = [creates EXCEPT ![k].pc = "idle", ![k].reply = 500]
       ELSE /\ leads' = Append(leads, NewLead(creates[k].phone, "medium", now))
            /\ creates' = [creates EXCEPT ![k].pc = "idle", ![k].reply = 201]
    /\ UNCHANGED <<now, calls, users, activeCalls, isRunning, maxConcurrentCalls,
                   tick, manual, hook, reset, placed, nCallbacks, selected,
                   hooks, boot>>

CreateInit ==
    /\ now = 0
    /\ leads = <<>>
    /\ calls = <<>>
    /\ users = [a \in AgentIds |->
                  [isAvailable |-> TRUE, isActive |-> TRUE,
                   totalCalls |-> 0, successfulCalls |-> 0]]
    /\ activeCalls = [l \in {} |-> NoAgent]
    /\ isRunning = FALSE
    /\ maxConcurrentCalls = DefaultMaxConcurrentCalls
    /\ tick = [p \in Ticks |-> IdleTick]
    /\ manual = IdleManual
    /\ hook = IdleHook
    /\ reset = {}
    /\ placed = {}
    /\ nCallbacks = 0
    /\ selected = NotProbed
    /\ creates = [k \in Creators |-> IdleCreate]
    /\ hooks = [k \in Hooks |-> IdleHook]
    /\ boot = "started"

CreateNext ==
    \/ \E k \in Creators, ph \in Phones : CreateRead(k, ph)
    \/ \E k \in Creators : CreateSave(k)

SpecCreate == CreateInit /\ [][CreateNext]_vars

----------------------------------------------------------------------------
(* Selection on its own: Lead.getNextLeadToCall() applied once to a store  *)
(* of leads in any mix of status, activity, priority and next call time    *)

SelLeadIds == 1..SelLeads

SelectInit ==
    /\ now \in 0..SelMaxTime
    /\ \E st \in [SelLeadIds -> {"pending", "calling", "failed"}],
          ac \in [SelLeadIds -> BOOLEAN],
          pr \in [SelLeadIds -> Priorities],
          nx \in [SelLeadIds -> {NoTime} \cup (0..SelMaxTime)] :
          leads = [l \in SelLeadIds |->
                     [NewLead(l, pr[l], l) EXCEPT !.status = st[l],
                                               !.isActive = ac[l],
                                               !.nextCallTime = nx[l]]]
    /\ calls = <<>>
    /\ users = [a \in AgentIds |->
                  [isAvailable |-> TRUE, isActive |-> TRUE,
                   totalCalls |-> 0, successfulCalls |-> 0]]
    /\ activeCalls = [l \in {} |-> NoAgent]
    /\ isRunning = FALSE
    /\ maxConcurrentCalls = DefaultMaxConcurrentCalls
    /\ tick = [p \in Ticks |-> IdleTick]
    /\ manual = IdleManual
    /\ hook = IdleHook
    /\ reset = {}
    /\ placed = {}
    /\ nCallbacks = 0
    /\ selected = NotProbed
    /\ creates = [k \in Creators |-> IdleCreate]
    /\ hooks = [k \in Hooks |-> IdleHook]
    /\ boot = "started"

\* const nextLead = await Lead.getNextLeadToCall()
SelectProbe ==
    /\ selected = NotProbed
    /\ LET found == getNextLeadToCall(leads, now) IN
          IF found = {} THEN selected' = NoLead ELSE selected' \in found
    /\ UNCHANGED <<now, leads, calls, users, activeCalls, isRunning,
                   maxConcurrentCalls, tick, manual, hook, reset, placed,
                   nCallbacks, creates, hooks, boot>>

SelectNext == SelectProbe

SpecSelect == SelectInit /\ [][SelectNext]_vars

----------------------------------------------------------------------------
(* Properties *)

\* the handlers that claim a lead and place a call: the ticks and the manual
\* call start
Handlers == Ticks \cup {0}
H(p) == IF p = 0 THEN manual ELSE tick[p]

\* C1: no lead is referenced by two Call Attempts that are both in a
\* non-terminal status (initiated, ringing, answered).
C1_OneOpenAttemptPerLead ==
    \A i, j \in 1..Len(calls) :
        (i # j /\ calls[i].lead = calls[j].lead)
            => ~(calls[i].status \in NonTerminal /\ calls[j].status \in NonTerminal)

\* C2: of two handlers (two ticks, or a tick and a manual call start) that
\* observed the same pending lead, at most one transitions it to calling and
\* places a call for it: no two handlers have both had a call accepted for
\* the same lead.
C2_SingleClaim ==
    \A p, q \in Handlers :
        (p # q /\ H(p).pc = "accepted" /\ H(q).pc = "accepted")
            => H(p).lead # H(q).lead

PriorityRank(p) ==
    CASE p = "urgent" -> 4
      [] p = "high" -> 3
      [] p = "medium" -> 2
      [] p = "low" -> 1

IsDue(l) ==
    /\ leads[l].isActive
    /\ leads[l].status = "pending"
    /\ (leads[l].nextCallTime = NoTime \/ leads[l].nextCallTime <= now)

\* C4: getNextLeadToCall returns the eligible lead of the highest priority
\* rank (urgent > high > medium > low) and, among those, the one created
\* earliest.
C4_HighestRankFirst ==
    selected \in DOMAIN leads =>
        \A m \in DOMAIN leads :
            IsDue(m) =>
                \/ PriorityRank(leads[selected].priority) > PriorityRank(leads[m].priority)
                \/ /\ leads[selected].priority = leads[m].priority
                   /\ leads[selected].createdAt <= leads[m].createdAt

\* C5: getNextLeadToCall never returns a lead that is inactive, not pending
\* or not yet due, and it returns no lead only when no stored lead is active,
\* pending and due.
C5_OnlyEligibleReturned ==
    /\ selected \in DOMAIN leads => IsDue(selected)
    /\ selected = NoLead => \A m \in DOMAIN leads : ~IsDue(m)

\* C5 witness: a lead was returned although another stored lead is inactive,
\* not pending or not yet due
C5_Witness ==
    /\ selected \in DOMAIN leads
    /\ \E m \in DOMAIN leads : ~leads[m].isActive
    /\ \E m \in DOMAIN leads : leads[m].status # "pending"
    /\ \E m \in DOMAIN leads : leads[m].nextCallTime > now

\* the dispatcher has placed a call for lead l
CalledByQueue(l) ==
    \E c \in 1..Len(calls) :
        calls[c].lead = l /\ calls[c].origin = "queue" /\ c \in placed

CallbackApplied(S) == HookUpdateLead /\ MapStatus(hook.status) \in S

\* C7: when a status callback with a terminal outcome is applied to a Call
\* Attempt the dispatcher placed, the lead's entry is removed from
\* activeCalls.
C7_CallbackFreesSlot ==
    [][(CallbackApplied(Terminal) /\ calls[hook.call].origin = "queue")
          => hook.doc.lead \notin DOMAIN activeCalls']_vars

\* C8: each outcome busy, no-answer or failed applied through the status
\* callback increases the lead's persisted callAttempts by exactly 1.
C8_OutcomeCountsOnce ==
    [][CallbackApplied({"busy", "no-answer", "failed"})
          => leads'[hook.doc.lead].callAttempts
               = leads[hook.doc.lead].callAttempts + 1]_vars

C10_RetryScheduled ==
    [][\A s \in {"no-answer", "busy"} :
          (CallbackApplied({s}) /\ leads'[hook.doc.lead].callAttempts < MaxAttempts)
              => /\ leads'[hook.doc.lead].status = "pending"
                 /\ leads'[hook.doc.lead].nextCallTime
                      = now + (IF s = "busy" THEN BusyDelay ELSE NoAnswerDelay)]_vars

\* C11: a lead whose callAttempts reaches the maximum of 3 on a countable
\* outcome is persisted with status failed and isActive false, and from then
\* on getNextLeadToCall never returns it, whatever operations follow.
C11_RetiredNeverSelected ==
    /\ [][\A l \in LeadIds :
            (leads[l].callAttempts < MaxAttempts
             /\ leads'[l].callAttempts >= MaxAttempts)
                => (leads'[l].status = "failed" /\ ~leads'[l].isActive)]_vars
    /\ [](\A l \in LeadIds :
            leads[l].callAttempts >= MaxAttempts
                => l \notin getNextLeadToCall(leads, now))

\* a step of the status callback handler that writes to the store
CallbackWrites == HookUpdateLog \/ HookUpdateLead

\* C12: applying the same terminal callback (same CallSid, same terminal
\* status) a second time leaves the Call Attempt's status, the lead's status,
\* callAttempts and callHistory and the agents' counters as they were.
C12_DuplicateCallbackIdempotent ==
    [][(CallbackWrites /\ hook.was \in Terminal
                       /\ hook.was = MapStatus(hook.status))
          => /\ calls'[hook.call].status = calls[hook.call].status
             /\ leads'[hook.doc.lead].status = leads[hook.doc.lead].status
             /\ leads'[hook.doc.lead].callAttempts
                  = leads[hook.doc.lead].callAttempts
             /\ leads'[hook.doc.lead].callHistory
                  = leads[hook.doc.lead].callHistory
             /\ users' = users]_vars

\* C13: once a Call Attempt's status is terminal, no later provider callback
\* or manual status update changes that Call Attempt's status or its lead's
\* status.
C13_TerminalIsFinal ==
    [][/\ \A c \in 1..Len(calls) :
             calls[c].status \in Terminal => calls'[c].status = calls[c].status
       /\ ((HookUpdateLead \/ StatusUpdateLead) /\ hook.was \in Terminal)
             => leads'[hook.doc.lead].status = leads[hook.doc.lead].status]_vars

\* the Call Attempts of lead l that are in a non-terminal status
OpenAttempts(l) ==
    {c \in 1..Len(calls) : calls[c].lead = l /\ calls[c].status \in NonTerminal}

\* C14: a lead whose persisted status is calling has exactly one Call Attempt
\* in a non-terminal status.
C14_CallingHasOneOpenAttempt ==
    \A l \in LeadIds :
        leads[l].status = "calling" => Cardinality(OpenAttempts(l)) = 1

\* C15: every lead's persisted callAttempts is at most the maximum of 3.
C15_AttemptsCapped == \A l \in LeadIds : leads[l].callAttempts <= MaxAttempts

\* the lead is failed with its retries exhausted, or transferred
FinalLead(l) ==
    \/ leads[l].status = "transferred"
    \/ leads[l].status = "failed" /\ leads[l].callAttempts >= MaxAttempts

\* C16: once a lead's persisted status is failed (retries exhausted) or
\* transferred, no later tick, callback, manual call start, manual status
\* update or stuck-lead recovery changes its status or places another call
\* for it.
C16_FinalLeadUntouched ==
    [][\A l \in LeadIds :
          FinalLead(l)
              => /\ leads'[l].status = leads[l].status
                 /\ \A c \in 1..Len(calls') :
                       (calls'[c].lead = l /\ c \in placed') => c \in placed]_vars

\* C17: resetStuckLeads sets to pending, with assignedTo cleared, every lead
\* whose status is calling and whose last update is more than 5 minutes old,
\* and changes no lead that is not in calling or that was updated within the
\* last 5 minutes.
C17_ResetOnlyStuck ==
    [][/\ ResetStuckLeadsFind
             => \A l \in LeadIds :
                   (leads[l].status = "calling"
                    /\ leads[l].updatedAt < now - StuckMinutes) => l \in reset'
       /\ ResetStuckLeadsSave
             => \A l \in LeadIds :
                   leads'[l] # leads[l]
                       => /\ leads[l].status = "calling"
                          /\ leads[l].updatedAt < now - StuckMinutes
                          /\ leads'[l].status = "pending"
                          /\ leads'[l].assignedTo = NoAgent]_vars

\* the calls the gateway accepted for lead l
PlacedFor(l) == {c \in placed : calls[c].lead = l}

\* stuck-lead recovery has reset lead l, whose call was orphaned, to pending;
\* the lead is due, the working set has free capacity, a salesperson is
\* available, no tick is under way and every call log so far is a placed
\* call of l
Recovered(l) ==
    /\ PlacedFor(l) # {}
    /\ IsDue(l)
    /\ leads[l].assignedTo = NoAgent
    /\ reset = {}
    /\ \A p \in Ticks : tick[p].pc = "idle"
    /\ Cardinality(DOMAIN activeCalls) < maxConcurrentCalls
    /\ findAvailableSalesperson(users) # {}
    /\ CallsCommitted = Cardinality(PlacedFor(l))

\* C18: after stuck-lead recovery resets an orphaned calling lead to pending,
\* a later tick eventually selects that lead and places a new call for it,
\* given an available agent and free capacity.
C18_RecoveredLeadCalledAgain ==
    \A l \in LeadIds :
        \A n \in 1..MaxCalls :
            (Recovered(l) /\ Cardinality(PlacedFor(l)) = n)
                ~> (Cardinality(PlacedFor(l)) > n)

\* C19: when call placement fails synchronously (initiateCall returns
\* success=false, or a step of makeCall throws after the lead was claimed),
\* the lead is persisted as pending with assignedTo cleared, the Call Attempt
\* created for it is marked failed with the error detail, and the lead's
\* entry is removed from activeCalls.
C19_PlacementFailureReverts ==
    [][\A p \in Ticks :
          HandleCallFailureRelease(p)
              => /\ leads'[tick[p].lead].status = "pending"
                 /\ leads'[tick[p].lead].assignedTo = NoAgent
                 /\ tick[p].call # NoCall
                       => /\ calls'[tick[p].call].status = "failed"
                          /\ calls'[tick[p].call].errorMessage
                 /\ tick[p].lead \notin DOMAIN activeCalls']_vars

\* handleCallFailure is about to run for lead l
PlacementFailed(l) ==
    \E p \in Ticks : tick[p].pc = "rejected" /\ tick[p].lead = l

\* C20: after a single failure (a placement rejection, an exception inside a
\* tick or inside failure handling) the dispatcher keeps running and no
\* failure permanently consumes a slot of the working set: the entry of a
\* lead whose placement failed is eventually removed from activeCalls.
C20_FailureReleasesSlot ==
    \A l \in LeadIds : PlacementFailed(l) ~> (l \notin DOMAIN activeCalls)

\* tick p learns that no salesperson is available, or returns because of it
NoAgentStep(p) ==
    \/ /\ tick[p].pc = "selected"
       /\ tick'[p].pc = "agent"
       /\ tick'[p].agent = NoAgent
    \/ /\ tick[p].pc = "agent"
       /\ tick[p].agent = NoAgent
       /\ tick'[p].pc = "idle"

\* C21: when a tick selects a lead but no available agent exists, the tick
\* leaves the lead's stored record unchanged, creates no Call Attempt and
\* adds no entry to activeCalls.
C21_NoAgentNoEffect ==
    [][\A p \in Ticks :
          NoAgentStep(p)
              => /\ leads'[tick[p].lead] = leads[tick[p].lead]
                 /\ calls' = calls
                 /\ activeCalls' = activeCalls]_vars

\* C21 witness: a tick selected a lead and found no available salesperson;
\* the lead is still pending, has no Call Attempt and is not in activeCalls
C21_Witness ==
    \E p \in Ticks :
        /\ tick[p].pc = "agent"
        /\ tick[p].agent = NoAgent
        /\ leads[tick[p].lead].status = "pending"
        /\ tick[p].lead \notin DOMAIN activeCalls
        /\ \A c \in 1..Len(calls) : calls[c].lead # tick[p].lead

\* POST /webhook/status found no call log for the CallSid
UnknownSidStep ==
    /\ hook.pc = "idle"
    /\ nCallbacks' = nCallbacks + 1
    /\ hook'.pc = "idle"

\* C22: a status callback whose CallSid matches no stored Call Attempt is
\* answered with an error, not success, and changes no lead, no Call
\* Attempt, no agent counter and no activeCalls entry.
C22_UnknownSidIsAnError ==
    [][UnknownSidStep
          => /\ hook'.reply >= 400
             /\ leads' = leads
             /\ calls' = calls
             /\ users' = users
             /\ activeCalls' = activeCalls]_vars

\* C22 witness: the provider accepted a call whose sid is not stored yet and
\* its callback was answered 404
C22_Witness ==
    /\ hook.pc = "idle"
    /\ hook.reply = 404
    /\ \E c \in placed : calls[c].twilioCallSid # c

\* the last step of a handler that applies an answered status: the status
\* callback or the answer webhook
AnsweredApplied ==
    \/ HookUpdateLead /\ MapStatus(hook.status) = "answered"
    \/ AnswerSaveLead

\* C23: when an answered status is applied to a Call Attempt whose lead is
\* calling, through the status callback or through the answer webhook, the
\* lead's persisted status becomes answered and the Call Attempt's answerTime
\* is set.
C23_AnsweredPersisted ==
    [][(AnsweredApplied /\ leads[hook.doc.lead].status = "calling")
          => /\ leads'[hook.doc.lead].status = "answered"
             /\ calls'[hook.call].answerTime # NoTime]_vars

\* C24: when a completed status callback is applied to a Call Attempt whose
\* lead is answered, the lead's persisted status becomes transferred and the
\* Call Attempt records its endTime.
C24_CompletedTransfers ==
    [][(HookUpdateLead /\ MapStatus(hook.status) = "completed"
                       /\ leads[hook.doc.lead].status = "answered")
          => /\ leads'[hook.doc.lead].status = "transferred"
             /\ calls'[hook.call].endTime # NoTime]_vars

\* C25: each terminal outcome applied to a Call Attempt through the provider
\* callback path increments the assigned agent's callStats.totalCalls by
\* exactly 1, and callStats.successfulCalls by 1 if and only if the outcome is
\* completed.  Stated at the step that ends the callback's handling; no other
\* step of the handler writes a user.
C25_CallbackCountsForAgent ==
    [][(HookUpdateLead /\ MapStatus(hook.status) \in Terminal
                       /\ hook.was \notin Terminal)
          => LET a == hook.doc.salesperson IN
             /\ users'[a].totalCalls = users[a].totalCalls + 1
             /\ users'[a].successfulCalls =
                   users[a].successfulCalls
                     + (IF MapStatus(hook.status) = "completed" THEN 1 ELSE 0)]_vars

\* the queue was paused or resumed in this step
PauseOrResumeStep == isRunning' # isRunning

\* C26: pause() and resume() leave activeCalls and every stored lead and Call
\* Attempt unchanged, so entries admitted before a pause are still present
\* after the pause and after the resume, and a callback arriving during a
\* pause is reconciled as usual: its status is written to the Call Attempt.
C26_PauseResumeFrame ==
    [][/\ PauseOrResumeStep
             => /\ activeCalls' = activeCalls
                /\ leads' = leads
                /\ calls' = calls
       /\ (~isRunning /\ hook.pc = "found" /\ hook'.pc = "logSaved")
             => calls'[hook.call].status = MapStatus(hook.status)]_vars

\* C26 witness: the queue is paused with a call in flight, and a callback
\* that arrived for it has been written to the Call Attempt
C26_Witness ==
    /\ ~isRunning
    /\ hook.pc = "logSaved"
    /\ hook.doc.lead \in DOMAIN activeCalls
    /\ calls[hook.call].status = MapStatus(hook.status)

\* C27: the dispatcher transitions a lead to calling, inserts into activeCalls
\* and places a call only while the running flag is true: while the queue is
\* paused no lead becomes calling, no entry is added to activeCalls, no Call
\* Attempt is created and no call is placed, even if a tick was in progress
\* at the moment of the pause.
C27_NoDispatchWhilePaused ==
    [][(~isRunning /\ ~isRunning')
          => /\ Len(calls') = Len(calls)
             /\ placed' = placed
             /\ DOMAIN activeCalls' \subseteq DOMAIN activeCalls
             /\ \A l \in LeadIds :
                   leads'[l].status = "calling" => leads[l].status = "calling"]_vars

\* C28: in every tick, the lead returned by selection is not already a key of
\* activeCalls: no lead that is pending and eligible in the store is at the
\* same time present in the working set, so the defensive skip is never
\* taken.
C28_SelectedNotInFlight ==
    [][\A p \in Ticks :
          (tick[p].pc = "idle" /\ tick'[p].pc = "selected")
              => tick'[p].lead \notin DOMAIN activeCalls]_vars

\* the statuses of C29
CountedFailures == {"no_answer", "busy", "failed"}

\* C29: Lead.updateCallStatus(s) with s in {no_answer, busy, failed}, applied
\* to a lead whose callAttempts stays below 3, leaves the lead with status
\* equal to s, callAttempts increased by exactly 1 and exactly one new
\* callHistory entry.
C29_UpdateCallStatusCounts ==
    [][\A l \in LeadIds, s \in CountedFailures :
          (MethodUpdateCallStatus(l, s) /\ leads[l].callAttempts + 1 < MaxAttempts)
              => /\ leads'[l].status = s
                 /\ leads'[l].callAttempts = leads[l].callAttempts + 1
                 /\ Len(leads'[l].callHistory) = Len(leads[l].callHistory) + 1
                 /\ leads'[l].callHistory[Len(leads'[l].callHistory)].status = s]_vars

\* C29 witness: updateCallStatus('no_answer') was applied to a new lead
C29_Witness ==
    \E l \in LeadIds :
        /\ leads[l].status = "no_answer"
        /\ leads[l].callAttempts = 1
        /\ Len(leads[l].callHistory) = 1
        /\ leads[l].lastCallAttempt # NoTime

\* C30: CallLog.updateStatus('answered') records the answer time, and a
\* following CallLog.updateStatus('completed', {duration: d}) leaves the
\* record with status completed and duration equal to the supplied d.
C30_SuppliedDurationKept ==
    [][\A c \in 1..Len(calls) :
          /\ (\E has \in BOOLEAN, d \in Durations :
                 MethodUpdateStatus(c, "answered", has, d))
                => /\ calls'[c].status = "answered"
                   /\ calls'[c].answerTime = now
          /\ \A d \in Durations :
                (MethodUpdateStatus(c, "completed", TRUE, d)
                   /\ calls[c].status = "answered")
                    => /\ calls'[c].status = "completed"
                       /\ calls'[c].duration = d]_vars

\* C30 witness: a call log answered at one time and completed later with a
\* supplied duration that differs from the elapsed time
C30_Witness ==
    \E c \in 1..Len(calls) :
        /\ calls[c].status = "completed"
        /\ calls[c].answerTime # NoTime
        /\ calls[c].endTime > calls[c].answerTime
        /\ calls[c].duration = 120
        /\ calls[c].duration # (calls[c].endTime - calls[c].answerTime) * 60

\* C31: whenever a Call Attempt has both its answerTime and its endTime set,
\* its stored duration equals endTime minus answerTime in whole seconds,
\* including when the completing callback carries no duration or a different
\* duration.
C31_DurationIsElapsedTime ==
    \A c \in 1..Len(calls) :
        (calls[c].answerTime # NoTime /\ calls[c].endTime # NoTime)
            => calls[c].duration = (calls[c].endTime - calls[c].answerTime) * 60

\* C32: no call is ever placed with an agent whose isActive is false, whether
\* the agent is chosen by the dispatcher or named explicitly in a manual call
\* initiation, after any sequence of activate/deactivate and availability
\* updates.
C32_OnlyActiveAgentsCalled ==
    [][\A c \in placed' \ placed : users[calls[c].salesperson].isActive]_vars

\* no two stored leads share a phone number
UniquePhones(ls) ==
    \A l, m \in DOMAIN ls : ls[l].phone = ls[m].phone => l = m

\* request k ends in this step
CreateEnds(k) == creates[k] # creates'[k] /\ creates'[k].pc = "idle"

\* C33: in every reachable state no two stored leads share a phone number:
\* creating a lead whose phone equals that of an existing lead is rejected
\* and leaves the store unchanged, also when two creations of the same number
\* interleave.
C33_PhonesUnique ==
    [][/\ UniquePhones(leads')
       /\ \A k \in Creators :
             (CreateEnds(k) /\ PhoneStored(leads, creates'[k].phone))
                 => /\ creates'[k].reply >= 400
                    /\ leads' = leads]_vars

\* C33 witness: two requests for the same number passed the duplicate check
\* together; one created the lead and the other was rejected by the index
C33_Witness ==
    \E k, j \in Creators :
        /\ creates[k].reply = 201
        /\ creates[j].reply = 500
        /\ creates[j].phone = creates[k].phone
        /\ Cardinality({l \in DOMAIN leads : leads[l].phone = creates[k].phone}) = 1

\* the attempt numbers of a callHistory are strictly increasing
AttemptsIncrease(h) ==
    \A i \in 1..(Len(h) - 1) : h[i].attempt < h[i + 1].attempt

\* C34: a lead's callHistory is append-only: no operation removes or rewrites
\* an existing entry, and the attempt numbers of successive entries are
\* strictly increasing.
C34_HistoryAppendOnly ==
    [][\A l \in LeadIds :
          /\ Len(leads'[l].callHistory) >= Len(leads[l].callHistory)
          /\ SubSeq(leads'[l].callHistory, 1, Len(leads[l].callHistory))
                = leads[l].callHistory
          /\ AttemptsIncrease(leads'[l].callHistory)]_vars

\* C40: in every reachable state, starting from a freshly created lead, the
\* number of entries in a lead's callHistory equals its callAttempts, also
\* when two outcome updates for the same lead interleave between their read
\* and their save.
C40_HistoryMatchesAttempts ==
    \A l \in LeadIds : Len(leads[l].callHistory) = leads[l].callAttempts

\* the terminal statuses of a call that did not succeed
FailureClass == Terminal \ {"completed"}

\* C35: in every reachable state, a Call Attempt whose errorMessage or
\* errorCode is set has a failure-class terminal status: no sequence of
\* placement failures, provider callbacks and manual status updates leaves an
\* error field populated on a Call Attempt whose status is initiated, ringing,
\* answered or completed.
C35_ErrorOnlyOnFailure ==
    \A c \in 1..Len(calls) :
        calls[c].errorMessage => calls[c].status \in FailureClass

\* a step of the status callback's handling, after the call log was found
CallbackStep == HookUpdateLog \/ HookReadLead \/ HookUpdateLead

\* C36: a ringing status callback applied to a Call Attempt whose lead is
\* calling changes the Call Attempt's status to ringing and leaves the lead's
\* status, callAttempts, callHistory, nextCallTime and assignedTo unchanged.
C36_RingingLeavesLead ==
    [][(CallbackStep /\ hook.status = "ringing"
                     /\ leads[hook.doc.lead].status = "calling")
          => LET l == hook.doc.lead IN
             /\ HookUpdateLog => calls'[hook.call].status = "ringing"
             /\ leads'[l].status = leads[l].status
             /\ leads'[l].callAttempts = leads[l].callAttempts
             /\ leads'[l].callHistory = leads[l].callHistory
             /\ leads'[l].nextCallTime = leads[l].nextCallTime
             /\ leads'[l].assignedTo = leads[l].assignedTo]_vars

\* C36 witness: a ringing callback was handled and answered; the Call Attempt
\* is ringing and its lead is calling
C36_Witness ==
    /\ hook.pc = "idle"
    /\ hook.reply = 200
    /\ \E c \in 1..Len(calls) :
          /\ calls[c].status = "ringing"
          /\ leads[calls[c].lead].status = "calling"
          /\ leads[calls[c].lead].callAttempts = 0

\* C37: handleCallStatusUpdate maps every provider status to a member of the
\* fixed Call Attempt status set: the eight known statuses map to themselves,
\* and any other provider status maps to failed with an error message
\* recorded and is then treated as a failed outcome for the lead.
C37_StatusMapping ==
    [][/\ HookUpdateLog
           => /\ calls'[hook.call].status \in CallStatuses
              /\ hook.status \in CallStatuses
                    => calls'[hook.call].status = hook.status
              /\ hook.status \notin CallStatuses
                    => /\ calls'[hook.call].status = "failed"
                       /\ calls'[hook.call].errorMessage
       /\ (HookUpdateLead /\ hook.status \notin CallStatuses)
           => LET l == hook.doc.lead
                  h == leads'[l].callHistory
              IN  /\ leads'[l].callAttempts = hook.ldoc.callAttempts + 1
                  /\ Len(h) > 0
                  /\ h[Len(h)].status = "failed"]_vars

\* C37 witness: a callback with a status outside the known eight was
\* handled: the Call Attempt is failed with an error message and the lead has
\* a failed entry in its history
C37_Witness ==
    /\ hook.pc = "idle"
    /\ hook.reply = 200
    /\ \E c \in 1..Len(calls) :
          /\ calls[c].status = "failed"
          /\ calls[c].errorMessage
          /\ calls[c].twilioCallSid = c
          /\ leads[calls[c].lead].callAttempts = 1
          /\ leads[calls[c].lead].callHistory = <<[attempt |-> 1, status |-> "failed"]>>

\* C38: at process start, stuck-lead recovery completes before the
\* dispatcher's first tick: no tick selects a lead while the startup recovery
\* is still running.
C38_RecoveryBeforeFirstTick ==
    [][\A p \in Ticks :
          (tick[p].pc = "idle" /\ tick'[p].pc = "selected")
              => boot = "started"]_vars

\* C39: the dispatcher never assigns the same agent to two leads that are in
\* the working set at the same time: an agent holds at most one in-flight
\* dispatcher call.
C39_OneInFlightCallPerAgent ==
    \A l1, l2 \in DOMAIN activeCalls :
        activeCalls[l1] = activeCalls[l2] => l1 = l2

====
